---- MODULE Spec2Model ----
(***************************************************************************)
(* The schema-driven extraction orchestrator of                            *)
(* supabase/functions/smart-crawler/index.ts: performSchemaBasedCrawl,     *)
(* updateSchemaMetrics and calculateConfidenceScore, run by NumProcs       *)
(* concurrent callers against one extraction_schemas table.                *)
(*                                                                         *)
(* A step of a caller is what the code runs between two awaits: the store  *)
(* (schema read, counter read, update) and the crawl delegate are the only *)
(* suspension points, so callers interleave exactly there.  The url is      *)
(* handed through untouched and is left out; processingTimeMs is a number  *)
(* read off the wall clock, which the model carries as one opaque value.   *)
(***************************************************************************)
EXTENDS Integers, Sequences, FiniteSets, TLC

\* ------------------------------------------------------------------ bounds
\* The concurrent callers, the usage_count of the learned schema before the
\* calls, and how many store calls may fail in one run.
NumProcs == 2
InitCount == 2
MaxFaults == 1
\* The records of an array handed to calculateConfidenceScore.
MaxRecords == 2
\* The definitions (leaves and groups) of a patterns tree.
MaxNodes == 3

Procs == 1..NumProcs

\* ------------------------------------------------------------- JS values
\* A JSON value of an extracted record: a string or null.
Str(s) == [t |-> "string", v |-> s]
JsNull == [t |-> "null", v |-> ""]
\* One key of an extracted record.
KV(k, val) == [k |-> k, v |-> val]
\* Parsed content: a bare record, or an array of records.
Obj(rec) == [tag |-> "object", items |-> <<rec>>]
Arr(recs) == [tag |-> "array", items |-> recs]
\* `undefined` (an absent field of a result or response).
Undefined == [tag |-> "undefined"]

\* The contents the crawl delegate returns in this model.
Contents ==
    { Obj(<<KV("title", Str("Hello"))>>),
      Obj(<<KV("title", Str("")), KV("price", Str("$10"))>>) }

\* ---------------------------------------------- convertToCrawl4aiFormat
\* The values of a patterns tree.  A string is the sequence of its pieces: a
\* selector is written character by character, an attribute and a key as
\* words with the separators "|" and "." as pieces of their own.
JsString(pieces) == [t |-> "string", v |-> pieces]
JsNumber == [t |-> "number", v |-> <<"5">>]
JsBool(b) == [t |-> "boolean", v |-> IF b THEN <<"true">> ELSE <<"false">>]
PatNull == [t |-> "null", v |-> <<>>]
\* An object: its own keys in order, each with its value.
Object(entries) == [t |-> "object", v |-> entries]

SelectorKey == <<"selector">>
AttributeKey == <<"attribute">>
RequiredKey == <<"required">>

\* key in def
Has(def, key) == def.t = "object" /\ \E i \in 1..Len(def.v) : def.v[i].k = key

\* def?.key
Get(def, key) ==
    IF Has(def, key)
    THEN def.v[CHOOSE i \in 1..Len(def.v) : def.v[i].k = key].v
    ELSE Undefined

\* The truth value JavaScript gives a value in a condition.
Truthy(val) ==
    /\ val # Undefined
    /\ val.t # "null"
    /\ val.t = "string" => val.v # <<>>
    /\ val.t = "boolean" => val.v = <<"true">>

\* x ?? ''
OrEmpty(val) == IF val = Undefined \/ val.t = "null" THEN JsString(<<>>) ELSE val

\* The index of the first "|" of an attribute, 0 when it has none.
FirstBar(pieces) ==
    IF \E i \in 1..Len(pieces) : pieces[i] = "|"
    THEN CHOOSE i \in 1..Len(pieces) :
            pieces[i] = "|" /\ \A j \in 1..(i - 1) : pieces[j] # "|"
    ELSE 0

\* Mutant: the segment after the first "|" is taken.
FirstSegment_SecondSegment(pieces) ==
    LET rest == SubSeq(pieces, FirstBar(pieces) + 1, Len(pieces))
    IN IF FirstBar(rest) = 0 THEN rest ELSE SubSeq(rest, 1, FirstBar(rest) - 1)

\* Mutant: the attribute is not split.
FirstSegment_Whole(pieces) == pieces

\* attr.split('|')[0]
FirstSegment(pieces) ==
    IF FirstBar(pieces) = 0 THEN pieces ELSE SubSeq(pieces, 1, FirstBar(pieces) - 1)

\* The alternatives of /a\[|img\[|li|ul/.
MultiValuePatterns ==
    { <<"a", "[">>, <<"i", "m", "g", "[">>, <<"l", "i">>, <<"u", "l">> }

Contains(text, pat) ==
    \E i \in 1..(Len(text) - Len(pat) + 1) : SubSeq(text, i, i + Len(pat) - 1) = pat

\* /a\[|img\[|li|ul/.test(selector): an unanchored search.
RegexTest(selector) == \E pat \in MultiValuePatterns : Contains(selector.v, pat)

\* What a call returns when a TypeError is thrown inside it.
Raised == [raised |-> "TypeError"]

\* !('selector' in def) && !('attribute' in def), for an object
IsNested(def) == def.t = "object" /\ ~Has(def, SelectorKey) /\ ~Has(def, AttributeKey)

\* if (attr === 'textContent' || attr === 'text') ... else if (selector &&
\* regex.test(selector)) ... else ...
FieldType(selector, attr) ==
    CASE attr = JsString(<<"textContent">>) \/ attr = JsString(<<"text">>) -> "text"
      [] Truthy(selector) /\ RegexTest(selector) -> "list"
      [] OTHER -> "attribute"

\* Mutant: every field is marked required.
LeafField_AlwaysRequired(name, selector, type, attr, required) ==
    LET withAttribute == type = "attribute" /\ Truthy(attr)
    IN [f \in {"name", "selector", "type", "required"}
                \cup (IF withAttribute THEN {"attribute"} ELSE {}) |->
            CASE f = "name" -> name
              [] f = "selector" -> selector
              [] f = "type" -> type
              [] f = "attribute" -> attr
              [] OTHER -> TRUE]

\* { name, selector, type }, with attribute and required when they are set.
LeafField(name, selector, type, attr, required) ==
    LET withAttribute == type = "attribute" /\ Truthy(attr)
        withRequired == Truthy(required)
    IN [f \in {"name", "selector", "type"}
                \cup (IF withAttribute THEN {"attribute"} ELSE {})
                \cup (IF withRequired THEN {"required"} ELSE {}) |->
            CASE f = "name" -> name
              [] f = "selector" -> selector
              [] f = "type" -> type
              [] f = "attribute" -> attr
              [] OTHER -> TRUE]

\* processField for a definition that is not nested: a leaf, or a value
\* that is no object.
ProcessLeaf(name, def) ==
    LET selector == OrEmpty(Get(def, SelectorKey))
        given == Get(def, AttributeKey)
    IN IF Truthy(given) /\ given.t # "string"
       THEN Raised     \* attr.includes is not a function
       ELSE LET attr == IF Truthy(given) /\ FirstBar(given.v) # 0
                        THEN JsString(FirstSegment(given.v))
                        ELSE given
            IN LeafField(name, selector, FieldType(selector, attr), attr,
                         Get(def, RequiredKey))

RECURSIVE processField(_, _)

\* Mutant: a sub-field is given its dotted path as name.
processField_DottedName(name, def) ==
    IF IsNested(def)
    THEN LET nestedFields == [i \in 1..Len(def.v) |->
                                processField(name \o <<".">> \o def.v[i].k, def.v[i].v)]
         IN IF \E i \in 1..Len(def.v) : nestedFields[i] = Raised THEN Raised
            ELSE [name |-> name, type |-> "nested", fields |-> nestedFields]
    ELSE ProcessLeaf(name, def)

\* Mutant: a sub-field is given the name of its group.
processField_GroupName(name, def) ==
    IF IsNested(def)
    THEN LET nestedFields == [i \in 1..Len(def.v) |-> processField(name, def.v[i].v)]
         IN IF \E i \in 1..Len(def.v) : nestedFields[i] = Raised THEN Raised
            ELSE [name |-> name, type |-> "nested", fields |-> nestedFields]
    ELSE ProcessLeaf(name, def)

processField(name, def) ==
    IF IsNested(def)
    THEN LET nestedFields == [i \in 1..Len(def.v) |-> processField(def.v[i].k, def.v[i].v)]
         IN IF \E i \in 1..Len(def.v) : nestedFields[i] = Raised THEN Raised
            ELSE [name |-> name, type |-> "nested", fields |-> nestedFields]
    ELSE ProcessLeaf(name, def)

convertToCrawl4aiFormat(patterns) ==
    LET fields == IF patterns # Undefined /\ patterns.t = "object"
                  THEN [i \in 1..Len(patterns.v) |->
                            processField(patterns.v[i].k, patterns.v[i].v)]
                  ELSE <<>>
    IN IF \E i \in 1..Len(fields) : fields[i] = Raised THEN Raised
       ELSE [name |-> "extraction_schema", baseSelector |-> "body", fields |-> fields,
             transform |-> "flatten"]

\* --------------------------------------------- calculateConfidenceScore
\* value !== null && value !== undefined && value !== ''
Populated(val) == val.t # "null" /\ val.v # ""

RECURSIVE CountPopulated(_)
CountPopulated(rec) ==
    IF rec = <<>> THEN 0
    ELSE (IF Populated(Head(rec).v) THEN 1 ELSE 0) + CountPopulated(Tail(rec))

RECURSIVE TotalFields(_)
TotalFields(items) ==
    IF items = <<>> THEN 0 ELSE Len(Head(items)) + TotalFields(Tail(items))

RECURSIVE PopulatedFields(_)
PopulatedFields(items) ==
    IF items = <<>> THEN 0
    ELSE CountPopulated(Head(items)) + PopulatedFields(Tail(items))

\* The score populated / totalFields as the fraction [num, den]; 0 is 0/1.
Ratio(n, d) == [num |-> n, den |-> d]

\* Mutant: no test of totalFields before the division.
calculateConfidenceScore_NoZeroGuard(extractedContent) ==
    IF extractedContent.tag \notin {"object", "array"} THEN Ratio(0, 1)
    ELSE Ratio(PopulatedFields(extractedContent.items), TotalFields(extractedContent.items))

\* The sum of the ratios of the records, a record with no key counting 0.
RECURSIVE SumOfRatios(_)
SumOfRatios(items) ==
    IF items = <<>> THEN Ratio(0, 1)
    ELSE LET r == IF Head(items) = <<>> THEN Ratio(0, 1)
                  ELSE Ratio(CountPopulated(Head(items)), Len(Head(items)))
             t == SumOfRatios(Tail(items))
         IN Ratio(r.num * t.den + t.num * r.den, r.den * t.den)

\* Mutant: the mean of the ratios of the records.
calculateConfidenceScore_MeanOfRatios(extractedContent) ==
    IF extractedContent.tag \notin {"object", "array"} THEN Ratio(0, 1)
    ELSE LET items == extractedContent.items
         IN IF TotalFields(items) = 0 THEN Ratio(0, 1)
            ELSE Ratio(SumOfRatios(items).num, SumOfRatios(items).den * Len(items))

calculateConfidenceScore(extractedContent) ==
    IF extractedContent.tag \notin {"object", "array"} THEN Ratio(0, 1)
    ELSE LET items == extractedContent.items
             totalFields == TotalFields(items)
             populated == PopulatedFields(items)
         IN IF totalFields = 0 THEN Ratio(0, 1) ELSE Ratio(populated, totalFields)

\* ------------------------------------------------------------- the store
SchemaIds == {"sA", "sB", "sC"}

\* A usage_count column that holds null: no count is below zero.
NullColumn == -1

Row(p, n, t) == [exists |-> TRUE, patterns |-> p, usage_count |-> n, last_used_at |-> t]
NoRow == [exists |-> FALSE, patterns |-> FALSE, usage_count |-> 0, last_used_at |-> 0]

\* sA is a learned schema, sB is no row of the table, sC is a row whose
\* patterns column is null.
InitialSchemas ==
    [s \in SchemaIds |->
        CASE s = "sA" -> Row(TRUE, InitCount, 0)
          [] s = "sC" -> Row(FALSE, 0, 0)
          [] OTHER -> NoRow]

\* What a store call does: answers, answers {error}, or throws.
StoreOutcomes == {"ok", "error", "throw"}

\* ---------------------------------------------------- the crawl delegate
\* result.extracted_content: absent, the empty string, a string that is no
\* JSON, or the JSON text of a content.
Absent == [kind |-> "absent", parsed |-> Undefined]
EmptyText == [kind |-> "empty", parsed |-> Undefined]
BadJson == [kind |-> "badjson", parsed |-> Undefined]
Json(c) == [kind |-> "json", parsed |-> c]

Response(ok, content, msg) ==
    [throws |-> FALSE, success |-> ok, extracted_content |-> content, error_message |-> msg]
Throws(msg) ==
    [throws |-> TRUE, success |-> FALSE, extracted_content |-> Absent, error_message |-> msg]
NoResponse ==
    [throws |-> FALSE, success |-> FALSE, extracted_content |-> Absent, error_message |-> Undefined]

\* What crawler.arun() can do: throw, or resolve to a result.
ArunOutcomes ==
    { Throws(Undefined),
      Response(FALSE, Absent, Undefined),
      Response(FALSE, Json(Obj(<<KV("title", Str("Hello"))>>)), Str("navigation failed")),
      Response(TRUE, Absent, Undefined),
      Response(TRUE, EmptyText, Undefined),
      Response(TRUE, BadJson, Undefined) }
    \cup { Response(TRUE, Json(c), Undefined) : c \in Contents }

VARIABLES
    extraction_schemas,   \* the extraction_schemas table, by id
    crawl_results,        \* the results store: the set of saved results
    clock,                \* the wall clock read by new Date()
    pc,                   \* where each caller is
    call,                 \* the locals of performSchemaBasedCrawl
    usm,                  \* the locals of updateSchemaMetrics
    result,               \* what performSchemaBasedCrawl returned
    crawler,              \* the AsyncWebCrawler of each caller
    http,                 \* the request and the response of the HTTP handler
    scoreArg,             \* the argument of a calculateConfidenceScore call
    scoreRet,             \* what that call returned
    convertArg,           \* the argument of a convertToCrawl4aiFormat call
    convertRet,           \* what that call returned
    llm_calls,            \* the requests made to a language model so far
    batch,                \* the response of processBatchCrawl
    again                 \* what a second call with the same argument returned

vars == <<extraction_schemas, crawl_results, clock, pc, call, usm, result, crawler,
          http, scoreArg, scoreRet, convertArg, convertRet, llm_calls, batch, again>>

\* What the orchestrator never touches: the handler's request and response,
\* the arguments and results of the two pure functions, and the response of
\* a batch.
outside == <<http, scoreArg, scoreRet, convertArg, convertRet, batch, again>>

\* ------------------------------------------------- updateSchemaMetrics
\* `existing` as read: a usage_count that is a number, or anything else (no
\* row, an {error} answer, a row whose usage_count is null).
Null == [isNumber |-> FALSE, n |-> 0]
Num(n) == [isNumber |-> TRUE, n |-> n]

\* The answer of select('usage_count').eq('id', s).maybeSingle().
Existing(schemas, s, outcome) ==
    IF outcome = "ok" /\ schemas[s].exists /\ schemas[s].usage_count # NullColumn
    THEN Num(schemas[s].usage_count)
    ELSE Null

\* Mutant: newCount starts at 0.
NewCount_DefaultZero(existing, success) ==
    IF existing.isNumber THEN existing.n + (IF success THEN 1 ELSE 0) ELSE 0

\* let newCount = 1; if (existing && typeof existing.usage_count === 'number')
\*   newCount = existing.usage_count + (success ? 1 : 0)
NewCount(existing, success) ==
    IF existing.isNumber THEN existing.n + (IF success THEN 1 ELSE 0) ELSE 1

\* Mutant: the update clears the patterns column as well.
Updates_WithPatterns(success, newCount, now) ==
    IF success THEN [last_used_at |-> now, usage_count |-> newCount, patterns |-> FALSE]
    ELSE [last_used_at |-> now, patterns |-> FALSE]

\* Mutant: usage_count is put in the update whatever `success` is.
Updates_AlwaysCount(success, newCount, now) ==
    [last_used_at |-> now, usage_count |-> newCount]

\* const updates = { last_used_at: now }; if (success) updates.usage_count = newCount
Updates(success, newCount, now) ==
    IF success THEN [last_used_at |-> now, usage_count |-> newCount]
    ELSE [last_used_at |-> now]

NoUpdates == <<>>

\* Mutant: the update has no .eq('id', s) filter.
ApplyUpdate_NoFilter(schemas, s, updates) ==
    [id \in DOMAIN schemas |->
        IF ~schemas[id].exists THEN schemas[id]
        ELSE [col \in DOMAIN schemas[id] |->
                IF col \in DOMAIN updates THEN updates[col] ELSE schemas[id][col]]]

\* Mutant: the count is stored by an update of its own; the timestamp is
\* left for a second one.
ApplyUpdate_CountFirst(schemas, s, updates) ==
    IF ~schemas[s].exists THEN schemas
    ELSE [schemas EXCEPT ![s] =
            [col \in DOMAIN @ |->
                IF /\ col \in DOMAIN updates
                   /\ col = "usage_count" \/ "usage_count" \notin DOMAIN updates
                THEN updates[col] ELSE @[col]]]

\* update(updates).eq('id', s): the matching row takes the columns of
\* `updates`; no row matches an id that is not in the table.
ApplyUpdate(schemas, s, updates) ==
    IF ~schemas[s].exists THEN schemas
    ELSE [schemas EXCEPT ![s] =
            [col \in DOMAIN @ |-> IF col \in DOMAIN updates THEN updates[col] ELSE @[col]]]

NoMetrics == [calls |-> 0, success |-> FALSE, read |-> "none", write |-> "none",
              updates |-> NoUpdates]

\* The call updateSchemaMetrics(schemaId, success, processing, supabase).
BeginMetrics(u, success) ==
    [calls |-> u.calls + 1, success |-> success, read |-> "none", write |-> "none",
     updates |-> NoUpdates]

\* ---------------------------------------------- performSchemaBasedCrawl
\* Date.now() - start: the elapsed wall-clock time, whatever it is.
Processing == [t |-> "number", v |-> "Date.now() - start"]

Result(ok, content, method, score, err, savings) ==
    [success |-> ok, extractedContent |-> content, extractionMethod |-> method,
     processingTimeMs |-> Processing,
     confidenceScore |-> score, error |-> err, costSavings |-> savings]
NoResult == Undefined

NoCall == [schemaId |-> "none", fetch |-> "none", response |-> NoResponse,
           site |-> "none", err |-> Undefined]

\* Mutant: the patterns column is not checked.
SchemaMissing_NoPatternsCheck(schemas, s, outcome) ==
    outcome = "error" \/ ~schemas[s].exists

\* error || !schemaRow || !schemaRow.patterns
SchemaMissing(schemas, s, outcome) ==
    outcome = "error" \/ ~schemas[s].exists \/ ~schemas[s].patterns

\* Mutant: result.success is not checked.
ArunSucceeded_IgnoreFlag(r) ==
    r.extracted_content.kind \notin {"absent", "empty"}

\* Mutant: a content that is not fully populated is refused.
ArunSucceeded_ScoreGate(r) ==
    /\ r.success /\ r.extracted_content.kind \notin {"absent", "empty"}
    /\ r.extracted_content.kind = "json" =>
        LET sc == calculateConfidenceScore(r.extracted_content.parsed)
        IN sc.num = sc.den

\* result && result.success && result.extracted_content
ArunSucceeded(r) ==
    r.success /\ r.extracted_content.kind \notin {"absent", "empty"}

\* Mutant: text that is no JSON is taken as it is.
ParseThrows_OnlyMissing(content) == content.kind \in {"absent", "empty"}

\* JSON.parse(text) throws on undefined, on '' and on text that is no JSON.
ParseThrows(content) == content.kind \in {"absent", "empty", "badjson"}

\* Mutant: a failure asks the language model itself.
LlmCallsAt_OnFailure(site) == IF site \in {"notfound", "failed", "caught"} THEN 1 ELSE 0

\* The requests to a language model that the code makes on the way to each
\* return: none; a failure only names 'llm' in the object it returns.
LlmCallsAt(site) == 0

\* Mutant: every return site records a success.
MetricsFlag_AlwaysTrue(site) == TRUE

\* The success argument of updateSchemaMetrics at each return site: true
\* before the success return, false before the other three.
MetricsFlag(site) == site = "success"

\* Mutant: the message is returned as it is.
OrElse_NoFallback(msg, fallback) == msg

\* x || fallback, for a message that may be absent.
OrElse(msg, fallback) == IF msg = Undefined \/ msg = Str("") THEN Str(fallback) ELSE msg

\* The object of each return statement.
ReturnValue(c) ==
    CASE c.site = "notfound" ->
            Result(FALSE, Undefined, "llm", Undefined,
                   Str("Extraction schema not found"), Undefined)
      [] c.site = "success" ->
            Result(TRUE, c.response.extracted_content.parsed, "schema",
                   calculateConfidenceScore(c.response.extracted_content.parsed),
                   Undefined, Str("90% (no LLM calls)"))
      [] c.site = "failed" ->
            Result(FALSE, Undefined, "llm", Undefined,
                   OrElse(c.response.error_message, "Schema extraction failed"), Undefined)
      [] OTHER ->
            Result(FALSE, Undefined, "llm", Undefined,
                   OrElse(c.err, "Unknown error"), Undefined)

\* Mutant: a throw of the store escapes updateSchemaMetrics and lands in the
\* catch block of the caller.
AfterMetrics_Escapes(ret, u) ==
    IF u.read = "throw" \/ u.write = "throw"
    THEN [success |-> FALSE, extractedContent |-> Undefined, extractionMethod |-> "llm",
          processingTimeMs |-> Processing,
          confidenceScore |-> Undefined, error |-> Str("store unavailable"),
          costSavings |-> Undefined]
    ELSE ret

\* updateSchemaMetrics catches whatever its store calls throw and returns
\* nothing: the caller returns the object it built, whatever the update did.
AfterMetrics(ret, u) == ret

\* ------------------------------------------------------- the environment
Failed(tag) == IF tag \in {"error", "throw"} THEN 1 ELSE 0

RECURSIVE FaultsOf(_)
FaultsOf(n) ==
    IF n = 0 THEN 0
    ELSE Failed(call[n].fetch) + Failed(usm[n].read) + Failed(usm[n].write) + FaultsOf(n - 1)

\* The outcomes the store may still produce: a failure only while fewer
\* than MaxFaults store calls have failed.
StoreMay == IF FaultsOf(NumProcs) < MaxFaults THEN StoreOutcomes ELSE {"ok"}

\* Callers are interchangeable: they are numbered in the order they start.
MayStart(p) == \A q \in Procs : q < p => pc[q] # "fetch"

\* The table before any call, and callers that have run nothing yet.
StoreInit ==
    /\ extraction_schemas = InitialSchemas
    /\ crawl_results = {}
    /\ clock = 1

CallersInit(where) ==
    /\ pc = [p \in Procs |-> where[p]]
    /\ call = [p \in Procs |-> NoCall]
    /\ usm = [p \in Procs |-> NoMetrics]
    /\ result = [p \in Procs |-> NoResult]
    /\ crawler = [p \in Procs |-> "none"]
    /\ llm_calls = 0

\* No HTTP request is being served, and no batch.
NoRequest == http = Undefined /\ batch = Undefined

\* Neither pure function is being called.
NoFunctionCall ==
    /\ scoreArg = Undefined /\ scoreRet = Undefined
    /\ convertArg = Undefined /\ convertRet = Undefined
    /\ again = Undefined

\* NumProcs direct calls of performSchemaBasedCrawl.
Init ==
    /\ StoreInit
    /\ CallersInit([p \in Procs |-> "fetch"])
    /\ NoRequest
    /\ NoFunctionCall

\* The schemaId argument: any id for a direct call, the request's schema_id
\* for the call the handler makes.
SchemaArgs(p) == IF call[p].schemaId = "none" THEN SchemaIds ELSE {call[p].schemaId}

\* performSchemaBasedCrawl(url, s, supabase) up to its first metrics call or
\* to crawler.arun(): the schema read and what follows it.
FetchSchema(p) ==
    /\ pc[p] = "fetch"
    /\ MayStart(p)
    /\ \E s \in SchemaArgs(p), o \in StoreMay :
        LET site == CASE o = "throw" -> "caught"
                      [] SchemaMissing(extraction_schemas, s, o) -> "notfound"
                      [] OTHER -> "none"
        IN /\ call' = [call EXCEPT ![p] =
                        [@ EXCEPT !.schemaId = s, !.fetch = o, !.site = site,
                                  !.err = IF o = "throw" THEN Str("fetch failed") ELSE Undefined]]
           /\ IF site = "none"
              THEN /\ pc' = [pc EXCEPT ![p] = "arun"]
                   /\ usm' = usm
                   /\ crawler' = [crawler EXCEPT ![p] = "open"]
              ELSE /\ pc' = [pc EXCEPT ![p] = "usm_read"]
                   /\ usm' = [usm EXCEPT ![p] = BeginMetrics(@, MetricsFlag(site))]
                   /\ crawler' = crawler
           /\ llm_calls' = llm_calls + LlmCallsAt(site)
    /\ UNCHANGED <<extraction_schemas, crawl_results, clock, result, outside>>

\* crawler.arun() settles: the success branch (JSON.parse, the score), the
\* failure branch or the catch block, each up to its metrics call.
ArunSettles(p, r) ==
    LET parseThrows == ArunSucceeded(r) /\ ParseThrows(r.extracted_content)
        site == CASE r.throws \/ parseThrows -> "caught"
                  [] ArunSucceeded(r) -> "success"
                  [] OTHER -> "failed"
        err == CASE r.throws -> r.error_message
                 [] parseThrows -> Str("Unexpected token")
                 [] OTHER -> Undefined
    IN /\ call' = [call EXCEPT ![p] =
                    [@ EXCEPT !.response = r, !.site = site, !.err = err]]
       /\ usm' = [usm EXCEPT ![p] = BeginMetrics(@, MetricsFlag(site))]
       /\ llm_calls' = llm_calls + LlmCallsAt(site)
       /\ pc' = [pc EXCEPT ![p] = "usm_read"]
       /\ UNCHANGED <<extraction_schemas, crawl_results, clock, result, crawler, outside>>

\* crawler.arun() settles with one of the outcomes of ArunOutcomes.
ArunRespond(p) ==
    /\ pc[p] = "arun"
    /\ \E r \in ArunOutcomes : ArunSettles(p, r)

\* The return of performSchemaBasedCrawl after its metrics call.
Return(p, u) ==
    /\ pc' = [pc EXCEPT ![p] = "done"]
    /\ result' = [result EXCEPT ![p] = AfterMetrics(ReturnValue(call[p]), u)]

\* updateSchemaMetrics: the counter read, then newCount and updates.
UsmRead(p) ==
    /\ pc[p] = "usm_read"
    /\ \E o \in StoreMay :
        IF o = "throw"
        THEN LET u == [usm[p] EXCEPT !.read = o]
             IN /\ usm' = [usm EXCEPT ![p] = u]
                /\ Return(p, u)
                /\ clock' = clock
        ELSE LET existing == Existing(extraction_schemas, call[p].schemaId, o)
                 newCount == NewCount(existing, usm[p].success)
             IN /\ usm' = [usm EXCEPT ![p] =
                            [@ EXCEPT !.read = o,
                                      !.updates = Updates(usm[p].success, newCount, clock)]]
                /\ clock' = clock + 1
                /\ pc' = [pc EXCEPT ![p] = "usm_write"]
                /\ result' = result
    /\ UNCHANGED <<extraction_schemas, crawl_results, call, crawler, llm_calls, outside>>

\* updateSchemaMetrics: the update of the schema row, then the return.
UsmWrite(p) ==
    /\ pc[p] = "usm_write"
    /\ \E o \in StoreMay :
        LET u == [usm[p] EXCEPT !.write = o, !.updates = NoUpdates]
        IN /\ extraction_schemas' =
                IF o = "ok"
                THEN ApplyUpdate(extraction_schemas, call[p].schemaId, usm[p].updates)
                ELSE extraction_schemas
           /\ usm' = [usm EXCEPT ![p] = u]
           /\ Return(p, u)
    /\ UNCHANGED <<crawl_results, clock, call, crawler, llm_calls, outside>>

Next == \E p \in Procs : FetchSchema(p) \/ ArunRespond(p) \/ UsmRead(p) \/ UsmWrite(p)

Spec == Init /\ [][Next]_vars

\* The runtime resumes every caller whose store call has settled; nothing
\* in the code makes crawler.arun() settle.
FairSpec ==
    Spec /\ \A p \in Procs :
        WF_vars(FetchSchema(p)) /\ WF_vars(UsmRead(p)) /\ WF_vars(UsmWrite(p))

\* ------------------------------------ one call in a wider environment
\* Contents without a single key: {}, [] and [{}].
EmptyContents == {Obj(<<>>), Arr(<<>>), Arr(<< <<>> >>)}
EmptyOutcomes == {Response(TRUE, Json(c), Undefined) : c \in EmptyContents}

\* crawler.arun() resolves to a success whose content has no key.
ArunRespondEmpty(p) ==
    /\ pc[p] = "arun"
    /\ \E r \in EmptyOutcomes : ArunSettles(p, r)

\* What the usage_count column of the learned schema may hold before the
\* call: null, or a count.
StoredCounts == {NullColumn} \cup 0..InitCount

\* The caller that makes the one call.
Solo == 1

\* One direct call of performSchemaBasedCrawl; no other caller runs.
InitSolo ==
    /\ extraction_schemas \in
            {[InitialSchemas EXCEPT !["sA"].usage_count = n] : n \in StoredCounts}
    /\ crawl_results = {}
    /\ clock = 1
    /\ CallersInit([p \in Procs |-> IF p = Solo THEN "fetch" ELSE "off"])
    /\ NoRequest
    /\ NoFunctionCall

NextSolo == Next \/ \E p \in Procs : ArunRespondEmpty(p)

SpecSolo == InitSolo /\ [][NextSolo]_vars

\* ------------------------------------------------------ the HTTP handler
\* The body of a request: text that is no JSON, the JSON text null, or the
\* JSON text of an object whose url and schema_id may be absent or empty.
NotJson == [kind |-> "notjson"]
NullBody == [kind |-> "null"]
Payload(url, id) == [kind |-> "object", url |-> url, schema_id |-> id]

Urls == {Undefined, Str(""), Str("https://example.com")}
Ids == {Undefined, Str("")} \cup {Str(s) : s \in SchemaIds}
Bodies == {NotJson, NullBody} \cup {Payload(u, i) : u \in Urls, i \in Ids}
Requests == {[method |-> m, body |-> b] : m \in {"OPTIONS", "POST"}, b \in Bodies}

\* new Response(body, {status}); the status is 200 when none is given.
HttpResponse(status, body) == [status |-> status, body |-> body]
ErrorBody(msg) == [success |-> FALSE, extraction_method |-> "schema", error |-> Str(msg)]

\* Mutant: only an absent value is refused.
Falsy_OnlyUndefined(val) == val = Undefined

\* !x for a value that is absent or a string.
Falsy(val) == val = Undefined \/ val = Str("")

\* Mutant: the handler does not look at the environment.
EarlyResponse_NoEnvCheck(req, envConfigured) ==
    CASE req.method = "OPTIONS" -> HttpResponse(200, Str("ok"))
      [] req.body.kind \in {"notjson", "null"} ->
            HttpResponse(400, ErrorBody("Invalid request body"))
      [] Falsy(req.body.url) \/ Falsy(req.body.schema_id) ->
            HttpResponse(400, ErrorBody("Missing url or schema_id"))
      [] OTHER -> Undefined

\* The handler up to its call of performSchemaBasedCrawl: the response it
\* returns before that call, or Undefined when it makes the call.
EarlyResponse(req, envConfigured) ==
    CASE req.method = "OPTIONS" -> HttpResponse(200, Str("ok"))
      [] req.body.kind \in {"notjson", "null"} ->
            HttpResponse(400, ErrorBody("Invalid request body"))
      [] Falsy(req.body.url) \/ Falsy(req.body.schema_id) ->
            HttpResponse(400, ErrorBody("Missing url or schema_id"))
      [] ~envConfigured ->
            HttpResponse(500, ErrorBody("Supabase environment variables not configured"))
      [] OTHER -> Undefined

\* Mutant: the body names the method 'schema', as the error bodies do.
CrawlResponse_MethodSchema(res) ==
    LET optional == [extracted_content |-> res.extractedContent,
                     confidence_score |-> res.confidenceScore,
                     cost_savings |-> res.costSavings,
                     error |-> res.error]
        kept == {f \in DOMAIN optional : optional[f] # Undefined}
    IN [f \in {"success", "extraction_method", "processing_time_ms"} \cup kept |->
            CASE f = "success" -> res.success
              [] f = "extraction_method" -> "schema"
              [] f = "processing_time_ms" -> res.processingTimeMs
              [] OTHER -> optional[f]]

\* JSON.stringify of the response object: a key whose value is undefined is
\* left out.
CrawlResponse(res) ==
    LET optional == [extracted_content |-> res.extractedContent,
                     confidence_score |-> res.confidenceScore,
                     cost_savings |-> res.costSavings,
                     error |-> res.error]
        kept == {f \in DOMAIN optional : optional[f] # Undefined}
    IN [f \in {"success", "extraction_method", "processing_time_ms"} \cup kept |->
            CASE f = "success" -> res.success
              [] f = "extraction_method" -> res.extractionMethod
              [] f = "processing_time_ms" -> res.processingTimeMs
              [] OTHER -> optional[f]]

\* The caller that runs the handler's call of performSchemaBasedCrawl.
Handler == 1

\* One request is served; no other caller runs.
InitHandler ==
    /\ StoreInit
    /\ CallersInit([p \in Procs |-> IF p = Handler THEN "request" ELSE "off"])
    /\ http \in {[request |-> r, env |-> e, invoked |-> 0, response |-> Undefined] :
                    r \in Requests, e \in BOOLEAN}
    /\ batch = Undefined
    /\ NoFunctionCall

\* The handler from the request to its early response or to the call.
HandleRequest ==
    /\ pc[Handler] = "request"
    /\ LET early == EarlyResponse(http.request, http.env)
       IN IF early # Undefined
          THEN /\ http' = [http EXCEPT !.response = early]
               /\ pc' = [pc EXCEPT ![Handler] = "responded"]
               /\ call' = call
          ELSE /\ http' = [http EXCEPT !.invoked = @ + 1]
               /\ pc' = [pc EXCEPT ![Handler] = "fetch"]
               /\ call' = [call EXCEPT ![Handler].schemaId = http.request.body.schema_id.v]
    /\ UNCHANGED <<extraction_schemas, crawl_results, clock, usm, result, crawler,
                   scoreArg, scoreRet, convertArg, convertRet, llm_calls, batch, again>>

\* The handler after performSchemaBasedCrawl has returned.
Respond ==
    /\ pc[Handler] = "done"
    /\ http' = [http EXCEPT !.response = HttpResponse(200, CrawlResponse(result[Handler]))]
    /\ pc' = [pc EXCEPT ![Handler] = "responded"]
    /\ UNCHANGED <<extraction_schemas, crawl_results, clock, call, usm, result, crawler,
                   scoreArg, scoreRet, convertArg, convertRet, llm_calls, batch, again>>

NextHandler == HandleRequest \/ Respond \/ Next

SpecHandler == InitHandler /\ [][NextHandler]_vars

\* ------------------------------------------------------ processBatchCrawl
\* The urls of the batch: one per caller, named by its number.
BatchUrls == [p \in Procs |-> p]

\* What Promise.allSettled gives for a promise that was fulfilled.
Fulfilled(value) == [status |-> "fulfilled", value |-> value]

\* { url: urls[index], ...(fulfilled ? result.value : {success: false,
\*   error, extraction_method: 'error'}) }
ProcessedResult(url, settled) ==
    IF settled.status = "fulfilled"
    THEN [f \in {"url"} \cup DOMAIN settled.value |->
            IF f = "url" THEN url ELSE settled.value[f]]
    ELSE [url |-> url, success |-> FALSE, error |-> OrElse(settled.reason, "Unknown error"),
          extraction_method |-> "error"]

\* The results up to and with the first that is no success.
RECURSIVE UpToFailure(_)
UpToFailure(results) ==
    IF results = <<>> THEN <<>>
    ELSE IF ~Head(results).success THEN <<Head(results)>>
    ELSE <<Head(results)>> \o UpToFailure(Tail(results))

\* Mutant: the batch stops at the first unit that failed.
ProcessedResults_StopAtFailure(urls, settled) ==
    UpToFailure([i \in 1..Len(settled) |-> ProcessedResult(urls[i], settled[i])])

\* results.map((result, index) => ...)
ProcessedResults(urls, settled) ==
    [i \in 1..Len(settled) |-> ProcessedResult(urls[i], settled[i])]

\* The body of the response of the batch.
BatchResponse(urls, settled) ==
    LET processedResults == ProcessedResults(urls, settled)
    IN [success |-> TRUE,
        batch_results |-> processedResults,
        total_urls |-> Len(urls),
        successful_extractions |->
            Cardinality({i \in 1..Len(processedResults) : processedResults[i].success})]

\* processBatchCrawl(urls, schema_id, supabase): every url is crawled with
\* the one schema_id of the batch, all calls started together.
InitBatch ==
    /\ StoreInit
    /\ pc = [p \in Procs |-> "fetch"]
    /\ \E s \in SchemaIds : call = [p \in Procs |-> [NoCall EXCEPT !.schemaId = s]]
    /\ usm = [p \in Procs |-> NoMetrics]
    /\ result = [p \in Procs |-> NoResult]
    /\ crawler = [p \in Procs |-> "none"]
    /\ llm_calls = 0
    /\ http = Undefined /\ batch = [pending |-> TRUE]
    /\ NoFunctionCall

\* Promise.allSettled has settled: the response is built.
Collect ==
    /\ batch = [pending |-> TRUE]
    /\ \A p \in Procs : pc[p] = "done"
    /\ batch' = BatchResponse(BatchUrls, [p \in Procs |-> Fulfilled(result[p])])
    /\ UNCHANGED <<extraction_schemas, crawl_results, clock, pc, call, usm, result,
                   crawler, http, scoreArg, scoreRet, convertArg, convertRet, llm_calls, again>>

NextBatch == Collect \/ Next

SpecBatch == InitBatch /\ [][NextBatch]_vars

\* ------------------------------------- calls of calculateConfidenceScore
\* The values of a key: a string, the empty string, a string of white space,
\* null.
ScoreValues == {Str("x"), Str(""), Str(" "), JsNull}
ScoreKeys == <<"a", "b">>

\* The records over a prefix of ScoreKeys.
ScoreRecords ==
    UNION {{[i \in 1..k |-> KV(ScoreKeys[i], f[i])] : f \in [1..k -> ScoreValues]} :
                k \in 0..Len(ScoreKeys)}

\* Parsed JSON that is no object: null, or a string.
ParsedNull == [tag |-> "null", items |-> <<>>]
ParsedString == [tag |-> "string", items |-> <<>>]

\* The arguments: a bare record, an array of up to MaxRecords records, or a
\* value that is no object.
ScoreInputs ==
    {Obj(r) : r \in ScoreRecords}
        \cup {Arr(rs) : rs \in UNION {[1..n -> ScoreRecords] : n \in 0..MaxRecords}}
        \cup {ParsedNull, ParsedString}

\* Nothing but the functions runs: no caller, no request.
NoCaller == CallersInit([p \in Procs |-> "off"])

InitScore ==
    /\ StoreInit /\ NoCaller /\ NoRequest
    /\ scoreArg \in ScoreInputs /\ scoreRet = Undefined
    /\ convertArg = Undefined /\ convertRet = Undefined
    /\ again = Undefined

\* The call calculateConfidenceScore(scoreArg).
Score ==
    /\ scoreArg # Undefined /\ scoreRet = Undefined
    /\ scoreRet' = calculateConfidenceScore(scoreArg)
    /\ UNCHANGED <<extraction_schemas, crawl_results, clock, pc, call, usm, result,
                   crawler, http, scoreArg, convertArg, convertRet, llm_calls, batch, again>>

NextScore == Score

SpecScore == InitScore /\ [][NextScore]_vars

\* -------------------------------------- calls of convertToCrawl4aiFormat
\* A leaf definition {selector, attribute, required}; a key whose value is
\* Undefined is not in the object.
LeafDef(selector, attribute, required) ==
    Object(SelectSeq(<<KV(SelectorKey, selector), KV(AttributeKey, attribute),
                       KV(RequiredKey, required)>>,
                     LAMBDA e : e.v # Undefined))

\* The selectors: none, '', h1, a[href], img[src], li, ul.menu, .headline
\* (no list element, but "li" occurs in it), null and a number.
Selectors ==
    { Undefined, JsString(<<>>), JsString(<<"h", "1">>),
      JsString(<<"a", "[", "h", "r", "e", "f", "]">>),
      JsString(<<"i", "m", "g", "[", "s", "r", "c", "]">>),
      JsString(<<"l", "i">>),
      JsString(<<"u", "l", ".", "m", "e", "n", "u">>),
      JsString(<<".", "h", "e", "a", "d", "l", "i", "n", "e">>),
      PatNull, JsNumber }

\* The attributes: none, '', textContent, text, href, the composites
\* textContent|datetime, href|title, |datetime and src|alt|title, null and a
\* number.
Attributes ==
    { Undefined, JsString(<<>>), JsString(<<"textContent">>), JsString(<<"text">>),
      JsString(<<"href">>), JsString(<<"textContent", "|", "datetime">>),
      JsString(<<"href", "|", "title">>), JsString(<<"|", "datetime">>),
      JsString(<<"src", "|", "alt", "|", "title">>),
      PatNull, JsNumber }

Requireds == {Undefined, JsBool(TRUE), JsBool(FALSE)}

\* The field names of the trees; "a.b" has a dot in it.
Names == << <<"a">>, <<"b">>, <<"a", ".", "b">> >>

\* The definitions a tree is built from: a leaf, and null.
TreeLeaves == {LeafDef(JsString(<<"h", "1">>), JsString(<<"textContent">>), Undefined), PatNull}

\* The definitions of a tree: 1 for a leaf, 1 + its sub-trees' for a group.
RECURSIVE Size(_)
RECURSIVE SumOfSizes(_)
SumOfSizes(entries) ==
    IF entries = <<>> THEN 0 ELSE Size(Head(entries).v) + SumOfSizes(Tail(entries))
Size(def) == IF IsNested(def) THEN 1 + SumOfSizes(def.v) ELSE 1

\* The definitions of at most n nodes, and the mappings of at most n nodes
\* over the names from the i-th on, in the order of Names.
RECURSIVE DefsUpTo(_)
RECURSIVE MappingsFrom(_, _)
DefsUpTo(n) ==
    IF n = 0 THEN {} ELSE TreeLeaves \cup {Object(m) : m \in MappingsFrom(1, n - 1)}
MappingsFrom(i, n) ==
    IF i > Len(Names) \/ n = 0 THEN {<<>>}
    ELSE MappingsFrom(i + 1, n)
            \cup UNION {{<<KV(Names[i], d)>> \o m : m \in MappingsFrom(i + 1, n - Size(d))} :
                            d \in DefsUpTo(n)}

\* {metadata: {author: {selector: '', attribute: 'textContent'}}}
MetadataAuthor ==
    Object(<<KV(<<"metadata">>,
                Object(<<KV(<<"author">>,
                            LeafDef(JsString(<<>>), JsString(<<"textContent">>), Undefined))>>))>>)

\* The arguments: a tree of at most MaxNodes definitions; one field with any
\* leaf or with a value that is no object; the metadata example; a patterns
\* value that is no object.
ConvertInputs ==
    {Object(m) : m \in MappingsFrom(1, MaxNodes)}
        \cup {Object(<<KV(Names[1], LeafDef(sel, a, r))>>) :
                    sel \in Selectors, a \in Attributes, r \in Requireds}
        \cup {Object(<<KV(Names[1], d)>>) : d \in {JsString(<<"h", "1">>), JsNumber, JsBool(TRUE)}}
        \cup {MetadataAuthor, Undefined, PatNull, JsString(<<"h", "1">>)}

InitConvert ==
    /\ StoreInit /\ NoCaller /\ NoRequest
    /\ scoreArg = Undefined /\ scoreRet = Undefined
    /\ convertArg \in ConvertInputs /\ convertRet = [pending |-> TRUE]
    /\ again = Undefined

\* The call convertToCrawl4aiFormat(convertArg).
Convert ==
    /\ convertRet = [pending |-> TRUE]
    /\ convertRet' = convertToCrawl4aiFormat(convertArg)
    /\ UNCHANGED <<extraction_schemas, crawl_results, clock, pc, call, usm, result,
                   crawler, http, scoreArg, scoreRet, convertArg, llm_calls, batch, again>>

NextConvert == Convert

SpecConvert == InitConvert /\ [][NextConvert]_vars

\* ------------------------------------- two calls with the same argument
\* One of the two pure functions is called, and called again with the same
\* argument, while a call of performSchemaBasedCrawl for the schema without
\* patterns reads the table, moves the clock and updates the row.
InitPure ==
    /\ StoreInit
    /\ pc = [p \in Procs |-> IF p = Solo THEN "fetch" ELSE "off"]
    /\ call = [p \in Procs |-> IF p = Solo THEN [NoCall EXCEPT !.schemaId = "sC"]
                                ELSE NoCall]
    /\ usm = [p \in Procs |-> NoMetrics]
    /\ result = [p \in Procs |-> NoResult]
    /\ crawler = [p \in Procs |-> "none"]
    /\ llm_calls = 0
    /\ NoRequest
    /\ \/ /\ scoreArg \in ScoreInputs /\ scoreRet = Undefined
          /\ convertArg = Undefined /\ convertRet = Undefined
       \/ /\ scoreArg = Undefined /\ scoreRet = Undefined
          /\ convertArg \in ConvertInputs /\ convertRet = [pending |-> TRUE]
    /\ again = [pending |-> TRUE]

\* Mutant: the score of the second call is discounted by the time of the
\* call.
ScoreAgain_ReadsClock ==
    /\ scoreRet # Undefined /\ again = [pending |-> TRUE]
    /\ again' = [ret |-> LET sc == calculateConfidenceScore(scoreArg)
                         IN Ratio(sc.num, sc.den * clock)]
    /\ UNCHANGED <<extraction_schemas, crawl_results, clock, pc, call, usm, result,
                   crawler, http, scoreArg, scoreRet, convertArg, convertRet, llm_calls,
                   batch>>

\* A second call calculateConfidenceScore(scoreArg).
ScoreAgain ==
    /\ scoreRet # Undefined /\ again = [pending |-> TRUE]
    /\ again' = [ret |-> calculateConfidenceScore(scoreArg)]
    /\ UNCHANGED <<extraction_schemas, crawl_results, clock, pc, call, usm, result,
                   crawler, http, scoreArg, scoreRet, convertArg, convertRet, llm_calls,
                   batch>>

\* A second call convertToCrawl4aiFormat(convertArg).
ConvertAgain ==
    /\ convertRet \notin {Undefined, [pending |-> TRUE]} /\ again = [pending |-> TRUE]
    /\ again' = [ret |-> convertToCrawl4aiFormat(convertArg)]
    /\ UNCHANGED <<extraction_schemas, crawl_results, clock, pc, call, usm, result,
                   crawler, http, scoreArg, scoreRet, convertArg, convertRet, llm_calls,
                   batch>>

NextPure ==
    \/ Score \/ ScoreAgain
    \/ Convert \/ ConvertAgain
    \/ \E p \in Procs : FetchSchema(p) \/ UsmRead(p) \/ UsmWrite(p)

SpecPure == InitPure /\ [][NextPure]_vars

\* ------------------------------------------------------------ the claims
Count(s) == extraction_schemas[s].usage_count
LastUsed(s) == extraction_schemas[s].last_used_at
Steps(p) == pc'[p] # pc[p]
InMetrics(p) == pc[p] \in {"usm_read", "usm_write"}
CountsUnchanged == \A s \in SchemaIds : Count(s)' = Count(s)
AllDone == \A p \in Procs : pc[p] = "done"
NoStoreFault(p) ==
    Failed(call[p].fetch) + Failed(usm[p].read) + Failed(usm[p].write) = 0
MetricsFault(p) == Failed(usm[p].read) + Failed(usm[p].write) > 0

\* The callers whose updateSchemaMetrics call had success = true on sA.
Successes == {p \in Procs : call[p].schemaId = "sA" /\ usm[p].calls = 1 /\ usm[p].success}

\* C1: once all N concurrent calls have finished, each successful one having
\* read the counter and had its update applied, usage_count is its value
\* before the calls plus the number of successful calls.
C1_ConcurrentIncrementsAllCount ==
    (AllDone /\ \A p \in Procs : NoStoreFault(p))
        => Count("sA") = InitCount + Cardinality(Successes)

\* C2: no step of any attempt, successful or failed, with or without a
\* failed counter read, makes a schema's usage_count smaller.
C2_UsageCountNeverDecreases ==
    [][\A s \in SchemaIds : Count(s)' >= Count(s)]_vars

\* C3: an updateSchemaMetrics call with success = false builds an update of
\* last_used_at alone, set to the time it reads the clock; no step of it
\* changes a usage_count, whatever other attempts do, and when the store
\* applies the update the row's last_used_at is that timestamp.
C3_FailureWritesOnlyLastUsed ==
    /\ [](\A p \in Procs :
            (pc[p] = "usm_write" /\ ~usm[p].success) =>
                /\ DOMAIN usm[p].updates = {"last_used_at"}
                /\ usm[p].updates.last_used_at < clock)
    /\ [][\A p \in Procs :
            (InMetrics(p) /\ ~usm[p].success /\ Steps(p)) =>
                /\ CountsUnchanged
                /\ pc'[p] = "usm_write" => usm'[p].updates = [last_used_at |-> clock]
                /\ (usm'[p].write = "ok" /\ extraction_schemas[call[p].schemaId].exists) =>
                        LastUsed(call[p].schemaId)' = usm[p].updates.last_used_at]_vars

\* A failed attempt on the existing schema whose update was applied.
C3_Witness ==
    \E p \in Procs :
        /\ pc[p] = "done" /\ call[p].schemaId = "sA"
        /\ ~usm[p].success /\ usm[p].write = "ok"
        /\ LastUsed("sA") > 0 /\ Count("sA") = InitCount

\* The crawl delegate was called and has settled.
Settled(p) == pc[p] \in {"usm_read", "usm_write", "done"} /\ call[p].site # "notfound"
                /\ call[p].fetch = "ok"
\* The call has not got the delegate's answer yet.
BeforeSettled(p) == pc[p] \in {"fetch", "arun"}
DelegateFailed(r) == r.throws \/ ~r.success
NoContent(r) == ~r.throws /\ r.success /\ r.extracted_content.kind \in {"absent", "empty"}

\* The failure path: one metrics call with success = false, and a structured
\* failure that recommends the LLM fallback.
OnFailurePath(p) ==
    /\ usm[p].calls = 1 /\ ~usm[p].success
    /\ pc[p] = "done" =>
        /\ result[p].success = FALSE
        /\ result[p].extractionMethod = "llm"
        /\ result[p].extractedContent = Undefined

\* C4: when the crawl delegate throws or answers success = false, the call
\* records the attempt with success = false, returns success = false with
\* extractionMethod 'llm', and none of its steps changes a usage_count.
C4_DelegateFailureFallsBack ==
    /\ [](\A p \in Procs :
            (Settled(p) /\ DelegateFailed(call[p].response)) => OnFailurePath(p))
    /\ [][\A p \in Procs :
            (Steps(p) /\ (BeforeSettled(p) \/ (Settled(p) /\ DelegateFailed(call[p].response))))
                => CountsUnchanged]_vars

\* A call has returned after its delegate answered success = false with content.
C4_Witness ==
    \E p \in Procs :
        /\ pc[p] = "done" /\ Settled(p) /\ usm[p].write = "ok"
        /\ ~call[p].response.throws /\ ~call[p].response.success
        /\ call[p].response.extracted_content.kind = "json"
        /\ result[p].error = Str("navigation failed")

\* C5: every call whose crawl delegate has been invoked eventually returns.
C5_EveryCallReturns ==
    \A p \in Procs : (pc[p] = "arun") ~> (pc[p] = "done")

\* C6: no call has returned success without its result (schema id, content,
\* score) being in the results store.
C6_SuccessIsSaved ==
    \A p \in Procs :
        (pc[p] = "done" /\ result[p].success) =>
            \E saved \in crawl_results :
                /\ saved.schema_id = call[p].schemaId
                /\ saved.content = result[p].extractedContent
                /\ saved.quality_score = result[p].confidenceScore

\* C7: a call on the existing schema whose delegate returned success with
\* parsable content, run with no other attempt started and its update applied,
\* returns success = true, extractionMethod 'schema' and the score of the
\* parsed content, and leaves usage_count at its prior value plus 1;
\* {title:'Hello'} scores 1.
C7_SuccessScoresAndIncrements ==
    \A p \in Procs :
        ( /\ pc[p] = "done" /\ Settled(p)
          /\ \A q \in Procs \ {p} : pc[q] = "fetch"
          /\ call[p].response.success
          /\ call[p].response.extracted_content.kind = "json"
          /\ usm[p].write = "ok" ) =>
            /\ result[p].success = TRUE
            /\ result[p].extractionMethod = "schema"
            /\ result[p].confidenceScore =
                    calculateConfidenceScore(call[p].response.extracted_content.parsed)
            /\ (result[p].extractedContent = Obj(<<KV("title", Str("Hello"))>>)
                    => result[p].confidenceScore = Ratio(1, 1))
            /\ Count("sA") = InitCount + 1

\* The schema read of the call found no usable schema: it answered an error,
\* no row, or a row without patterns.
NotInStore(p) ==
    /\ pc[p] # "fetch"
    /\ \/ call[p].fetch = "error"
       \/ /\ call[p].fetch = "ok"
          /\ \/ ~extraction_schemas[call[p].schemaId].exists
             \/ ~extraction_schemas[call[p].schemaId].patterns

\* What C8 says of the result, the delegate and the metrics call.
NotFoundOutcome(p) ==
    /\ pc[p] # "arun" /\ call[p].response = NoResponse
    /\ usm[p].calls = 1 /\ ~usm[p].success
    /\ pc[p] = "done" =>
        /\ result[p].success = FALSE
        /\ result[p].extractionMethod = "llm"
        /\ result[p].error \notin {Undefined, Str("")}

\* C8 as stated: when the schema is not in the store the call fails with
\* 'llm' and an error, never invokes the delegate, makes one metrics update
\* with success = false, and that update changes no record of the table.
C8_NotFoundChangesNoRecord ==
    /\ [](\A p \in Procs : NotInStore(p) => NotFoundOutcome(p))
    /\ [][\A p \in Procs :
            (NotInStore(p) /\ Steps(p)) => extraction_schemas' = extraction_schemas]_vars

\* C8 amended: the same, except that the update changes last_used_at of the
\* row with that id when such a row exists (read error, or no patterns); it
\* creates no row, changes no other row, and changes no usage_count or
\* patterns.
C8_NotFoundTouchesOnlyLastUsed ==
    /\ [](\A p \in Procs : NotInStore(p) => NotFoundOutcome(p))
    /\ [][\A p \in Procs :
            (NotInStore(p) /\ Steps(p)) =>
                \A s \in SchemaIds :
                    /\ extraction_schemas'[s].exists = extraction_schemas[s].exists
                    /\ extraction_schemas'[s].patterns = extraction_schemas[s].patterns
                    /\ Count(s)' = Count(s)
                    /\ (s # call[p].schemaId \/ ~extraction_schemas[s].exists)
                            => extraction_schemas'[s] = extraction_schemas[s]]_vars

\* A not-found call on an id with no row has returned, its update issued, and
\* another on the row without patterns has touched that row.
C8_Witness ==
    \E p, q \in Procs :
        /\ pc[p] = "done" /\ call[p].schemaId = "sB" /\ NotInStore(p) /\ usm[p].write = "ok"
        /\ pc[q] = "done" /\ call[q].schemaId = "sC" /\ NotInStore(q) /\ usm[q].write = "ok"
        /\ LastUsed("sC") > 0

\* C9: when the delegate reports success without extractable content, the
\* call takes the failure path of C4: metrics with success = false, a failure
\* result with 'llm', and no step of it changes a usage_count.
C9_NoContentFallsBack ==
    /\ [](\A p \in Procs :
            (Settled(p) /\ NoContent(call[p].response)) =>
                /\ OnFailurePath(p)
                /\ call[p].site = "failed")
    /\ [][\A p \in Procs :
            (Steps(p) /\ (BeforeSettled(p) \/ (Settled(p) /\ NoContent(call[p].response))))
                => CountsUnchanged]_vars

\* Calls have returned after the delegate reported success with no content
\* and with empty content.
C9_Witness ==
    \E p, q \in Procs :
        /\ pc[p] = "done" /\ Settled(p) /\ call[p].response.success
        /\ call[p].response.extracted_content.kind = "absent"
        /\ pc[q] = "done" /\ Settled(q) /\ call[q].response.success
        /\ call[q].response.extracted_content.kind = "empty"
        /\ usm[p].write = "ok" /\ usm[q].write = "ok"

\* Two calls were given the same schema read and the same delegate answer.
SameInputs(p, q) ==
    /\ call[p].schemaId = call[q].schemaId
    /\ call[p].fetch = call[q].fetch
    /\ call[p].response = call[q].response

\* C10: whatever the metrics update did (read error, write error, a throw),
\* a call returns what a call with the same inputs and a working metrics
\* update returns, and it does return a result.
C10_MetricsFailureKeepsResult ==
    \A p, q \in Procs :
        (pc[p] = "done" /\ pc[q] = "done" /\ SameInputs(p, q)) =>
            /\ result[p] # NoResult
            /\ result[p] = result[q]

\* Two successful calls with the same inputs, the metrics update of one of
\* them failed.
C10_Witness ==
    \E p, q \in Procs :
        /\ pc[p] = "done" /\ pc[q] = "done" /\ SameInputs(p, q)
        /\ MetricsFault(p) /\ ~MetricsFault(q)
        /\ result[q].success

\* The fields of the object every return statement builds.
ResultFields ==
    {"success", "extractedContent", "extractionMethod", "processingTimeMs",
     "confidenceScore", "error", "costSavings"}
NonEmpty(msg) == msg \notin {Undefined, Str("")}

\* C11: a call that has finished has returned a result object (it did not
\* raise); the result has success = true exactly when extractionMethod is
\* 'schema', and a failure has extractionMethod 'llm' and a non-empty error.
C11_AlwaysStructuredOutcome ==
    \A p \in Procs :
        /\ pc[p] \in {"fetch", "arun", "usm_read", "usm_write", "done"}
        /\ pc[p] = "done" =>
            /\ result[p] # NoResult
            /\ DOMAIN result[p] = ResultFields
            /\ result[p].extractionMethod \in {"schema", "llm"}
            /\ result[p].success <=> result[p].extractionMethod = "schema"
            /\ ~result[p].success =>
                /\ result[p].extractionMethod = "llm"
                /\ NonEmpty(result[p].error)

\* One call has returned from the catch block after the delegate threw a
\* value with no message, another after the schema was not found.
C11_Witness ==
    \E p, q \in Procs :
        /\ pc[p] = "done" /\ call[p].response.throws /\ call[p].err = Undefined
        /\ result[p].error = Str("Unknown error")
        /\ pc[q] = "done" /\ call[q].site = "notfound"

\* C12: a call that created a crawler has released it when it returns.
C12_CrawlerReleasedAtReturn ==
    \A p \in Procs : pc[p] = "done" => crawler[p] # "open"

\* The metrics call of p has run to its end: the counter read threw, or the
\* update was issued.
MetricsCompleted(p) ==
    /\ usm[p].read # "none"
    /\ usm[p].read = "throw" \/ usm[p].write # "none"

\* C13: a call makes no metrics call before its outcome is known and one
\* after; when it returns that one call has run to its end with the success
\* flag of the returned result, and its update was issued unless the counter
\* read threw.  last_used_at of a row changes only in the update step of a
\* call on that row, and a call takes that step once.
C13_OneMetricsCallPerAttempt ==
    /\ [](\A p \in Procs :
            /\ usm[p].calls = (IF pc[p] \in {"fetch", "arun"} THEN 0 ELSE 1)
            /\ pc[p] = "done" =>
                /\ MetricsCompleted(p)
                /\ usm[p].success = result[p].success)
    /\ [][\A s \in SchemaIds :
            LastUsed(s)' # LastUsed(s) =>
                \E p \in Procs :
                    /\ call[p].schemaId = s
                    /\ pc[p] = "usm_write" /\ pc'[p] = "done"
                    /\ usm'[p].write = "ok"]_vars

\* A successful and a failed call on the learned schema have returned, their
\* updates applied.
C13_Witness ==
    \E p, q \in Procs :
        /\ pc[p] = "done" /\ result[p].success /\ usm[p].write = "ok"
        /\ pc[q] = "done" /\ ~result[q].success /\ usm[q].write = "ok"
        /\ call[p].schemaId = "sA" /\ call[q].schemaId = "sA"
        /\ LastUsed("sA") > 0

\* score = 1/2
IsHalf(r) == r.num * 2 = r.den

\* C18: when the delegate reports success with parsable content of at least
\* one key, the call returns success = true and 'schema' whatever the score;
\* {title:'', price:'$10'} is returned with score 0.5 and success = true.
C18_ScoreNeverGatesSuccess ==
    \A p \in Procs :
        ( /\ pc[p] = "done" /\ Settled(p)
          /\ ~call[p].response.throws /\ call[p].response.success
          /\ call[p].response.extracted_content.kind = "json"
          /\ TotalFields(call[p].response.extracted_content.parsed.items) >= 1 ) =>
            /\ result[p].success = TRUE
            /\ result[p].extractionMethod = "schema"
            /\ result[p].extractedContent = call[p].response.extracted_content.parsed
            /\ (result[p].extractedContent =
                    Obj(<<KV("title", Str("")), KV("price", Str("$10"))>>)
                        => IsHalf(result[p].confidenceScore))

\* A call has returned success with a score below 1.
C18_Witness ==
    \E p \in Procs :
        /\ pc[p] = "done" /\ result[p].success = TRUE
        /\ result[p].extractedContent =
                Obj(<<KV("title", Str("")), KV("price", Str("$10"))>>)
        /\ result[p].confidenceScore = Ratio(1, 2)

\* The body of the request is read and is no JSON object with a non-empty
\* url and a non-empty schema_id.
Malformed(req) ==
    /\ req.method # "OPTIONS"
    /\ \/ req.body.kind # "object"
       \/ req.body.url \in {Undefined, Str("")}
       \/ req.body.schema_id \in {Undefined, Str("")}

\* C14: a request whose body is not JSON, or lacks a non-empty url or
\* schema_id, never starts performSchemaBasedCrawl: no schema read, delegate
\* call or metrics call is made, the table is untouched, and the response
\* has status 400 and success = false.
C14_MalformedRequestRejected ==
    Malformed(http.request) =>
        /\ pc[Handler] \in {"request", "responded"}
        /\ http.invoked = 0
        /\ call[Handler] = NoCall /\ usm[Handler] = NoMetrics /\ crawler[Handler] = "none"
        /\ extraction_schemas = InitialSchemas
        /\ pc[Handler] = "responded" =>
            /\ http.response.status = 400
            /\ http.response.body.success = FALSE

\* A request with a url and an empty schema_id has been answered.
C14_Witness ==
    /\ pc[Handler] = "responded"
    /\ http.request.method = "POST" /\ http.request.body.kind = "object"
    /\ http.request.body.url = Str("https://example.com")
    /\ http.request.body.schema_id = Str("")
    /\ http.response.status = 400

\* calculateConfidenceScore has returned for a record or an array of records.
Scored == scoreRet # Undefined /\ scoreArg.tag \in {"object", "array"}

\* The keys of all the records of a content, as <<record, key>> positions.
Positions(items) ==
    {pos \in (1..Len(items)) \X (1..Len(ScoreKeys)) : pos[2] <= Len(items[pos[1]])}
ValueAt(items, pos) == items[pos[1]][pos[2]].v

\* C15: for a record or an array of records the score is populated/total
\* with 0 <= populated <= total, total the number of keys of all records, so
\* it lies in [0,1]; with total = 0 it is exactly 0 and never 0/0; the score
\* of {a:'x', b:''} is 0.5.
C15_ScoreIsBoundedRatio ==
    Scored =>
        LET total == Cardinality(Positions(scoreArg.items))
        IN /\ scoreRet.den >= 1
           /\ 0 <= scoreRet.num /\ scoreRet.num <= scoreRet.den
           /\ total > 0 => scoreRet.den = total
           /\ total = 0 => scoreRet = Ratio(0, 1)
           /\ scoreArg = Obj(<<KV("a", Str("x")), KV("b", Str(""))>>) => IsHalf(scoreRet)

\* The array of two records without a key has been scored.
C15_Witness ==
    /\ Scored /\ scoreArg = Arr(<<<<>>, <<>>>>)
    /\ scoreRet = Ratio(0, 1)

\* A string of white space only.
Blank(val) == val.t = "string" /\ val.v \in {"", " "}

\* C16: the populated keys counted by the score are the keys whose value is
\* present and, when it is a string, not empty after trimming.
C16_WhitespaceIsNotPopulated ==
    (Scored /\ Positions(scoreArg.items) # {}) =>
        scoreRet.num =
            Cardinality({pos \in Positions(scoreArg.items) :
                            LET val == ValueAt(scoreArg.items, pos)
                            IN val.t # "null" /\ ~Blank(val)})

\* Two scores are the same number.
SameScore(r1, r2) == r1.num * r2.den = r2.num * r1.den

\* The populated keys of each record, by the record's own score, summed.
RECURSIVE SumOfPopulated(_)
SumOfPopulated(items) ==
    IF items = <<>> THEN 0
    ELSE calculateConfidenceScore(Obj(Head(items))).num + SumOfPopulated(Tail(items))

\* The keys of each record, summed.
RECURSIVE SumOfKeys(_)
SumOfKeys(items) ==
    IF items = <<>> THEN 0 ELSE Len(Head(items)) + SumOfKeys(Tail(items))

\* C17: the score of an array is (the populated keys of all its records) /
\* (the keys of all its records), the populated keys of a record being the
\* numerator of its own score; [{a:'x'}, {a:'', b:''}] scores 1/3, not the
\* mean 1/2; a bare record scores what the array of that record alone scores.
C17_PooledRatio ==
    Scored =>
        /\ (scoreArg.tag = "array" /\ SumOfKeys(scoreArg.items) > 0) =>
                SameScore(scoreRet, Ratio(SumOfPopulated(scoreArg.items),
                                          SumOfKeys(scoreArg.items)))
        /\ scoreArg = Arr(<<<<KV("a", Str("x"))>>, <<KV("a", Str("")), KV("b", Str(""))>>>>)
                => SameScore(scoreRet, Ratio(1, 3))
        /\ scoreArg.tag = "object" =>
                scoreRet = calculateConfidenceScore(Arr(scoreArg.items))

\* An array whose pooled ratio differs from the mean of its records' ratios
\* has been scored.
C17_Witness ==
    /\ Scored
    /\ scoreArg = Arr(<<<<KV("a", Str("x"))>>, <<KV("a", Str("")), KV("b", Str(""))>>>>)
    /\ scoreRet = Ratio(1, 3)

\* convertToCrawl4aiFormat has returned a plan for a patterns object.
Converted ==
    /\ convertRet \notin {Undefined, [pending |-> TRUE], Raised}
    /\ convertArg # Undefined /\ convertArg.t = "object"

\* The dotted paths of the leaf fields of a list of fields, in order: the
\* names from the top of the plan down to the leaf, joined with ".".
RECURSIVE LeafPaths(_, _)
LeafPaths(fields, prefix) ==
    IF fields = <<>> THEN <<>>
    ELSE LET f == Head(fields)
             path == IF prefix = <<>> THEN f.name ELSE prefix \o <<".">> \o f.name
         IN (IF f.type = "nested" THEN LeafPaths(f.fields, path) ELSE <<path>>)
                \o LeafPaths(Tail(fields), prefix)

PairwiseDistinct(seq) == \A i, j \in 1..Len(seq) : i # j => seq[i] # seq[j]

\* Every definition of the tree is a group or a leaf with a selector.
RECURSIVE WellFormed(_)
WellFormed(def) ==
    /\ def.t = "object"
    /\ IF IsNested(def)
       THEN \A i \in 1..Len(def.v) : WellFormed(def.v[i].v)
       ELSE /\ Has(def, SelectorKey)
            /\ Get(def, SelectorKey).t = "string" /\ Get(def, SelectorKey).v # <<>>
            /\ Get(def, AttributeKey) = Undefined \/ Get(def, AttributeKey).t = "string"

\* No field name of the tree has a "." in it.
RECURSIVE NoDottedName(_)
NoDottedName(def) ==
    IsNested(def) =>
        \A i \in 1..Len(def.v) :
            /\ \A j \in 1..Len(def.v[i].k) : def.v[i].k[j] # "."
            /\ NoDottedName(def.v[i].v)

\* C19 as stated: in the plan of a well-formed patterns tree the dotted
\* paths of the leaf fields are pairwise distinct.
C19_LeafPathsDistinct ==
    (Converted /\ WellFormed(convertArg)) =>
        PairwiseDistinct(LeafPaths(convertRet.fields, <<>>))

\* C19 amended: the same for a well-formed tree none of whose field names
\* has a "." in it.
C19_LeafPathsDistinctWithoutDots ==
    (Converted /\ WellFormed(convertArg) /\ NoDottedName(convertArg)) =>
        PairwiseDistinct(LeafPaths(convertRet.fields, <<>>))

\* The plan of {a: {b: leaf}, b: leaf}: the leaf paths a.b and b.
C19_Witness ==
    /\ Converted /\ WellFormed(convertArg) /\ NoDottedName(convertArg)
    /\ LeafPaths(convertRet.fields, <<>>) = << <<"a", ".", "b">>, <<"b">> >>

\* The first segment of an attribute: what stands before its first "|";
\* nothing when the attribute is absent.
Segment(attribute) ==
    IF attribute = Undefined THEN <<>>
    ELSE LET pieces == attribute.v
             upTo == {n \in 0..Len(pieces) : \A j \in 1..n : pieces[j] # "|"}
         IN SubSeq(pieces, 1, CHOOSE n \in upTo : \A m \in upTo : m <= n)

\* A leaf whose selector and attribute are strings or absent.
PlainLeaf(def) ==
    /\ def.t = "object" /\ ~IsNested(def)
    /\ Get(def, SelectorKey) = Undefined \/ Get(def, SelectorKey).t = "string"
    /\ Get(def, AttributeKey) = Undefined \/ Get(def, AttributeKey).t = "string"

\* The selector has one of the registered multi-value patterns in it.
MatchesMultiValue(def) ==
    Get(def, SelectorKey) # Undefined /\ RegexTest(Get(def, SelectorKey))

\* The attribute name is kept on the field when there is one.
KeepsAttribute(field, segment) ==
    segment # <<>> => ("attribute" \in DOMAIN field /\ field.attribute = JsString(segment))

\* The classification of the top-level leaves of the plan, `textual` being
\* the first segments that make a leaf a text field.
Classified(textual) ==
    Converted =>
        \A i \in 1..Len(convertArg.v) :
            LET def == convertArg.v[i].v
                field == convertRet.fields[i]
                segment == Segment(Get(def, AttributeKey))
            IN PlainLeaf(def) =>
                /\ segment \in textual => field.type = "text"
                /\ (segment \notin textual /\ MatchesMultiValue(def)) => field.type = "list"
                /\ (segment \notin textual /\ ~MatchesMultiValue(def)) =>
                        /\ field.type = "attribute"
                        /\ KeepsAttribute(field, segment)

ConvertEnded == convertRet \notin {Undefined, [pending |-> TRUE]}

\* The attribute is a string with a "|" in it.
Composite(attribute) ==
    /\ attribute # Undefined /\ attribute.t = "string"
    /\ \E j \in 1..Len(attribute.v) : attribute.v[j] = "|"

\* The definition with its attribute replaced.
WithAttribute(def, attribute) ==
    Object([i \in 1..Len(def.v) |->
                IF def.v[i].k = AttributeKey THEN KV(AttributeKey, attribute) ELSE def.v[i]])

\* C21: a leaf whose attribute is 'a|h1|...|hk' gives the plan field the same
\* leaf with the attribute 'a' alone gives (same type, same kept attribute),
\* and the conversion does not raise; 'textContent|datetime' gives a text
\* field as 'textContent' does.
C21_CompositeAttributeAsFirstSegment ==
    (ConvertEnded /\ convertArg # Undefined /\ convertArg.t = "object") =>
        \A i \in 1..Len(convertArg.v) :
            LET key == convertArg.v[i].k
                def == convertArg.v[i].v
                attribute == Get(def, AttributeKey)
                alone == WithAttribute(def, JsString(Segment(attribute)))
            IN (def.t = "object" /\ Composite(attribute)) =>
                /\ convertRet # Raised
                /\ convertRet.fields[i] =
                        convertToCrawl4aiFormat(Object(<<KV(key, alone)>>)).fields[1]
                /\ Segment(attribute) = <<"textContent">> => convertRet.fields[i].type = "text"

\* The leaf {selector: 'h1', attribute: 'src|alt|title'} has become an
\* attribute field that keeps src.
C21_Witness ==
    /\ ConvertEnded /\ convertRet # Raised
    /\ convertArg = Object(<<KV(Names[1],
                        LeafDef(JsString(<<"h", "1">>),
                                JsString(<<"src", "|", "alt", "|", "title">>), Undefined))>>)
    /\ convertRet.fields[1].type = "attribute"
    /\ convertRet.fields[1].attribute = JsString(<<"src">>)

\* C22: convertToCrawl4aiFormat raises for no patterns value.
C22_ConvertNeverRaises ==
    ConvertEnded => convertRet # Raised

\* A group definition has become a group field of that name whose children
\* are the fields of its entries, each under its own key, and any other
\* definition a field of that name that is no group.
RECURSIVE GroupShape(_, _, _)
GroupShape(key, def, field) ==
    IF IsNested(def)
    THEN /\ DOMAIN field = {"name", "type", "fields"}
         /\ field.name = key /\ field.type = "nested"
         /\ Len(field.fields) = Len(def.v)
         /\ \A i \in 1..Len(def.v) : GroupShape(def.v[i].k, def.v[i].v, field.fields[i])
    ELSE field.name = key /\ field.type # "nested"

\* C23: an object definition with neither a selector nor an attribute key
\* becomes the field {name, type: 'nested', fields} whose fields are the
\* processed entries of the object, named by their own keys (not by a dotted
\* path); {metadata: {author: {selector: '', attribute: 'textContent'}}}
\* gives one group metadata with one text leaf author of empty selector.
C23_GroupBecomesNestedField ==
    Converted =>
        /\ \A i \in 1..Len(convertArg.v) :
                GroupShape(convertArg.v[i].k, convertArg.v[i].v, convertRet.fields[i])
        /\ convertArg = MetadataAuthor =>
                convertRet.fields =
                    << [name |-> <<"metadata">>, type |-> "nested",
                        fields |-> << [name |-> <<"author">>, selector |-> JsString(<<>>),
                                       type |-> "text"] >>] >>

\* The metadata example has been converted to a group with one child.
C23_Witness ==
    /\ Converted /\ convertArg = MetadataAuthor
    /\ convertRet.fields[1].type = "nested"
    /\ Len(convertRet.fields[1].fields) = 1

\* The fields stand for the entries one for one, in order and by name, at
\* every level.
RECURSIVE SameKeys(_, _)
SameKeys(entries, fields) ==
    /\ Len(fields) = Len(entries)
    /\ \A i \in 1..Len(entries) :
        /\ fields[i].name = entries[i].k
        /\ fields[i].type = "nested" <=> IsNested(entries[i].v)
        /\ IsNested(entries[i].v) => SameKeys(entries[i].v.v, fields[i].fields)

\* C29: for every patterns mapping, malformed definitions included, the
\* call returns a plan that has, at every level, one field per key of the
\* mapping, in key order and named by the key.
C29_OneFieldPerKey ==
    (ConvertEnded /\ convertArg # Undefined /\ convertArg.t = "object") =>
        /\ convertRet # Raised
        /\ SameKeys(convertArg.v, convertRet.fields)

\* C30: a leaf field of the plan has required (= true) exactly when its
\* definition has required = true; a definition without required, or with
\* required = false, gives a field without it.
C30_RequiredPropagated ==
    Converted =>
        \A i \in 1..Len(convertArg.v) :
            LET def == convertArg.v[i].v
                field == convertRet.fields[i]
            IN ~IsNested(def) =>
                /\ "required" \in DOMAIN field <=> Get(def, RequiredKey) = JsBool(TRUE)
                /\ "required" \in DOMAIN field => field.required = TRUE

\* Leaves with required = true, with required = false and without required
\* are told apart: this one had required = true.
C30_Witness ==
    /\ Converted
    /\ convertArg = Object(<<KV(Names[1],
                        LeafDef(JsString(<<"h", "1">>), JsString(<<"href">>), JsBool(TRUE)))>>)
    /\ convertRet.fields[1].required = TRUE

\* C24: a step of an updateSchemaMetrics call for one schema id changes no
\* row of another id, under any interleaving, and a row no attempt was made
\* against is as it was before the calls.
C24_SchemasAreIndependent ==
    /\ [](\A s \in SchemaIds :
            (\A p \in Procs : call[p].schemaId # s) =>
                extraction_schemas[s] = InitialSchemas[s])
    /\ [][\A p \in Procs, s \in SchemaIds :
            (InMetrics(p) /\ Steps(p) /\ s # call[p].schemaId) =>
                extraction_schemas'[s] = extraction_schemas[s]]_vars

\* A successful call on sA and a call on sC have both had their updates
\* applied: sA counts it, sC has only been touched.
C24_Witness ==
    \E p, q \in Procs :
        /\ pc[p] = "done" /\ call[p].schemaId = "sA" /\ usm[p].success /\ usm[p].write = "ok"
        /\ pc[q] = "done" /\ call[q].schemaId = "sC" /\ usm[q].write = "ok"
        /\ Count("sA") = InitCount + 1 /\ LastUsed("sA") > 0
        /\ Count("sC") = 0 /\ LastUsed("sC") > 0

\* C25: no step moves a row's last_used_at back to an earlier timestamp, so
\* that after concurrent attempts on one id it is the latest attempt's.
C25_LastUsedNeverMovesBack ==
    [][\A s \in SchemaIds : LastUsed(s)' >= LastUsed(s)]_vars

Collected == batch \notin {Undefined, [pending |-> TRUE]}

\* C27: the batch reports one outcome per url, in the order of the urls,
\* each with the url and every field of what its own call returned, its own
\* success flag among them, whether or not a sibling failed; the count of
\* successes is the number of calls that returned success.
C27_BatchReportsEveryUnit ==
    Collected =>
        /\ Len(batch.batch_results) = NumProcs
        /\ batch.total_urls = NumProcs
        /\ \A p \in Procs :
            /\ batch.batch_results[p].url = BatchUrls[p]
            /\ batch.batch_results[p].success = result[p].success
            /\ \A f \in DOMAIN result[p] : batch.batch_results[p][f] = result[p][f]
        /\ batch.successful_extractions = Cardinality({p \in Procs : result[p].success})

\* A batch with a failed unit followed by a successful one has been reported.
C27_Witness ==
    /\ Collected
    /\ \E p, q \in Procs :
        /\ p < q
        /\ ~batch.batch_results[p].success
        /\ batch.batch_results[q].success

\* C28: no step of performSchemaBasedCrawl makes a request to a language
\* model; a call that failed has only named 'llm' in the result it returned.
C28_NoLlmCall ==
    /\ llm_calls = 0
    /\ \A p \in Procs :
        (pc[p] = "done" /\ ~result[p].success) => result[p].extractionMethod = "llm"

\* Calls have returned failures from the not-found branch, the failure
\* branch and the catch block.
C28_Witness ==
    /\ llm_calls = 0
    /\ \E p, q \in Procs :
        /\ pc[p] = "done" /\ call[p].site = "notfound" /\ result[p].extractionMethod = "llm"
        /\ pc[q] = "done" /\ call[q].site \in {"failed", "caught"}
        /\ result[q].extractionMethod = "llm"

\* The request passes every check of the handler: it is no preflight, its
\* body names a url and a schema, and the store is configured.
WellFormedRequest ==
    /\ http.request.method # "OPTIONS"
    /\ ~Malformed(http.request)
    /\ http.env

\* The key of a JSON body holds `val`; an undefined value leaves no key.
Carries(body, key, val) ==
    IF val = Undefined THEN key \notin DOMAIN body
    ELSE key \in DOMAIN body /\ body[key] = val

\* C31: for a well-formed request the handler calls performSchemaBasedCrawl
\* exactly once, and the body of its response carries the success,
\* extraction_method, extracted_content, confidence_score,
\* processing_time_ms and error of the result that call returned.
C31_ResponseMirrorsResult ==
    WellFormedRequest =>
        /\ http.invoked <= 1
        /\ pc[Handler] # "request" => http.invoked = 1
        /\ pc[Handler] = "responded" =>
            LET body == http.response.body
                res == result[Handler]
            IN /\ res # NoResult
               /\ http.response.status = 200
               /\ body.success = res.success
               /\ body.extraction_method = res.extractionMethod
               /\ body.processing_time_ms = res.processingTimeMs
               /\ Carries(body, "extracted_content", res.extractedContent)
               /\ Carries(body, "confidence_score", res.confidenceScore)
               /\ Carries(body, "error", res.error)

\* A well-formed request has been answered with the content of a failed
\* extraction: method 'llm' and the delegate's message.
C31_Witness ==
    /\ WellFormedRequest
    /\ pc[Handler] = "responded"
    /\ http.invoked = 1
    /\ ~http.response.body.success
    /\ http.response.body.extraction_method = "llm"
    /\ http.response.body.error = Str("navigation failed")
    /\ "extracted_content" \notin DOMAIN http.response.body

\* C36: the handler calls performSchemaBasedCrawl at most once, and only
\* for a request that passed every check.  A preflight is answered 'ok'
\* whatever its body is, a request without store configuration is answered
\* with status 500 and success = false, and as long as the call was not
\* made there is no schema read, no crawl and no metrics write.
C36_OrchestratorAfterChecks ==
    /\ http.invoked <= 1
    /\ http.invoked = 1 => WellFormedRequest
    /\ http.invoked = 0 =>
        /\ pc[Handler] \in {"request", "responded"}
        /\ call[Handler] = NoCall /\ usm[Handler] = NoMetrics
        /\ crawler[Handler] = "none"
        /\ extraction_schemas = InitialSchemas /\ clock = 1
    /\ pc[Handler] = "responded" /\ http.request.method = "OPTIONS" =>
        http.response = HttpResponse(200, Str("ok"))
    /\ /\ pc[Handler] = "responded"
       /\ http.request.method # "OPTIONS" /\ ~Malformed(http.request) /\ ~http.env
       => /\ http.response.status = 500
          /\ http.response.body.success = FALSE
          /\ http.invoked = 0

\* A request that names a url and a schema was answered 500 because the
\* store is not configured.
C36_Witness ==
    /\ pc[Handler] = "responded"
    /\ http.request.method = "POST" /\ ~Malformed(http.request) /\ ~http.env
    /\ http.response.status = 500
    /\ http.invoked = 0

\* The counter read of p gave no number: it answered {error}, or the
\* usage_count column of the row holds null.
NoNumericCount(p) ==
    \/ usm[p].read = "error"
    \/ usm[p].read = "ok" /\ Count(call[p].schemaId) = NullColumn

EmptyContent(p) ==
    /\ ~call[p].response.throws /\ call[p].response.success
    /\ call[p].response.extracted_content.kind = "json"
    /\ TotalFields(call[p].response.extracted_content.parsed.items) = 0

\* C35: when the delegate reports success and its content parses to an empty
\* record or an empty sequence, the call records the attempt with
\* success = true, returns success = true with extractionMethod 'schema' and
\* confidenceScore 0, and its update of the schema row raises the stored
\* usage_count by one.
C35_EmptyContentIsSuccess ==
    /\ [](\A p \in Procs :
            (Settled(p) /\ EmptyContent(p)) =>
                /\ call[p].site = "success"
                /\ usm[p].calls = 1 /\ usm[p].success
                /\ pc[p] = "done" =>
                    /\ result[p].success
                    /\ result[p].extractionMethod = "schema"
                    /\ result[p].confidenceScore = Ratio(0, 1)
                    /\ result[p].extractedContent =
                            call[p].response.extracted_content.parsed)
    /\ [][\A p \in Procs :
            (/\ Settled(p) /\ EmptyContent(p)
             /\ pc[p] = "usm_write" /\ Count(call[p].schemaId) # NullColumn
             /\ pc'[p] = "done" /\ usm'[p].write = "ok")
            => Count(call[p].schemaId)' = Count(call[p].schemaId) + 1]_vars

\* The delegate answered success with a text that is no JSON.
Unparsable(p) ==
    /\ ~call[p].response.throws /\ call[p].response.success
    /\ call[p].response.extracted_content.kind = "badjson"

\* C34: when the delegate reports success with a content that JSON.parse
\* refuses, the call makes exactly one metrics call, with success = false,
\* whose update carries no usage_count, and returns success = false with
\* extractionMethod 'llm' and the message of the parse error.
C34_UnparsableContentFallsBack ==
    \A p \in Procs :
        (Settled(p) /\ Unparsable(p)) =>
            /\ call[p].site = "caught"
            /\ OnFailurePath(p)
            /\ pc[p] = "usm_write" => DOMAIN usm[p].updates = {"last_used_at"}
            /\ pc[p] = "done" =>
                /\ result[p].error = Str("Unexpected token")
                /\ result[p].confidenceScore = Undefined
            /\ (\A q \in Procs : call[q].schemaId = call[p].schemaId
                                    => Unparsable(q) \/ BeforeSettled(q))
                    => Count(call[p].schemaId) =
                            InitialSchemas[call[p].schemaId].usage_count

\* A call on the learned schema got a text that is no JSON, has returned the
\* failure, and its update was applied: last_used_at moved, the count did not.
C34_Witness ==
    \E p \in Procs :
        /\ pc[p] = "done" /\ call[p].schemaId = "sA" /\ Unparsable(p)
        /\ usm[p].read = "ok" /\ usm[p].write = "ok"
        /\ ~result[p].success /\ result[p].extractionMethod = "llm"
        /\ LastUsed("sA") > 0
        /\ Count("sA") = InitCount

\* p's update is being applied, or refused, in this step.
Writes(p) == pc[p] = "usm_write" /\ pc'[p] = "done"

\* C37: the usage_count and the last_used_at of a successful attempt reach
\* the schema row in one step: the step that applies the update stores both
\* columns of `updates`, and every other step of the attempt leaves both as
\* they were, so no state has the one without the other.
C37_CountAndTimestampTogether ==
    [][\A p \in Procs :
         (usm[p].success /\ Steps(p)) =>
            LET s == call[p].schemaId
            IN IF Writes(p) /\ usm'[p].write = "ok"
               THEN /\ DOMAIN usm[p].updates = {"last_used_at", "usage_count"}
                    /\ Count(s)' = usm[p].updates.usage_count
                    /\ LastUsed(s)' = usm[p].updates.last_used_at
               ELSE /\ Count(s)' = Count(s)
                    /\ LastUsed(s)' = LastUsed(s)]_vars

\* A successful attempt has had its update applied: the row holds the count
\* and the timestamp of that update.
C37_Witness ==
    \E p \in Procs :
        /\ pc[p] = "done" /\ call[p].schemaId = "sA"
        /\ usm[p].success /\ usm[p].read = "ok" /\ usm[p].write = "ok"
        /\ Count("sA") = InitCount + 1
        /\ LastUsed("sA") > 0

\* The patterns argument is null, undefined or no object.
NoMapping(patterns) == patterns = Undefined \/ patterns.t # "object"

\* C38: every call of convertToCrawl4aiFormat returns a plan wrapper with
\* baseSelector 'body' and transform 'flatten', and for a patterns argument
\* that is null, undefined or no object the wrapper has no field.
C38_WrapperAlwaysReturned ==
    ConvertEnded =>
        /\ convertRet # Raised
        /\ DOMAIN convertRet = {"name", "baseSelector", "fields", "transform"}
        /\ convertRet.baseSelector = "body"
        /\ convertRet.transform = "flatten"
        /\ NoMapping(convertArg) => convertRet.fields = <<>>

\* The second call of a pure function has returned.
CalledAgain == again \notin {Undefined, [pending |-> TRUE]}
\* A step of a call of convertToCrawl4aiFormat or calculateConfidenceScore.
FunctionStep == scoreRet' # scoreRet \/ convertRet' # convertRet \/ again' # again

====
